---- MODULE Spec2Model ----
(***************************************************************************)
(* Model of streamlit_app.py: the Top_PIP_SNPs cell parser                 *)
(* (parse_top_pip_snps), the rsID resolver and link builder, and the       *)
(* row-building loop.                                                      *)
(*                                                                         *)
(* Python values are tagged records: a str is [t |-> "str", v |-> chars]   *)
(* with chars a sequence of one-character strings, a float is              *)
(* [t |-> "float", m |-> mantissa, e |-> exponent] standing for m * 10^e   *)
(* in canonical form (m not divisible by 10, or m = 0 and e = 0), and None *)
(* is [t |-> "NoneType"].  Within the lengths used here every decimal      *)
(* literal has fewer than 15 significant digits, so the conversion to a    *)
(* double is one-to-one and order preserving and the exact comparison of   *)
(* m * 10^e agrees with Python's comparison of the floats.                 *)
(***************************************************************************)
EXTENDS FiniteSets, Integers, Sequences, TLC

VARIABLES cell, result, pc, df, idx, rows, calls, out

vars == <<cell, result, pc, df, idx, rows, calls, out>>

----------------------------------------------------------------------------
(* Python values *)

None == [t |-> "NoneType"]

Str(chars) == [t |-> "str", v |-> chars]

Float(m, e) == [t |-> "float", m |-> m, e |-> e]

NaN == [t |-> "float", m |-> 0, e |-> -1]

Raised(exc) == [t |-> "raised", exc |-> exc]

IsRaised(x) == x.t = "raised"

isinstance_str(x) == x.t = "str"

isinstance_float_int(x) == x.t = "float"

----------------------------------------------------------------------------
(* Characters and str methods *)

Digits == <<"0", "1", "2", "3", "4", "5", "6", "7", "8", "9">>

IsDigit(c) == \E k \in 1..10 : Digits[k] = c

DigitVal(c) == (CHOOSE k \in 1..10 : Digits[k] = c) - 1

IsSpace(c) == c \in {" ", "\t", "\n", "\r"}

UpperCase == <<"A", "F", "R", "S", "X", "E">>

LowerCase == <<"a", "f", "r", "s", "x", "e">>

Lower(c) ==
  IF \E k \in 1..Len(UpperCase) : UpperCase[k] = c
  THEN LowerCase[CHOOSE k \in 1..Len(UpperCase) : UpperCase[k] = c]
  ELSE c

Drop(s, n) == SubSeq(s, n + 1, Len(s))

RECURSIVE lstrip(_)
lstrip(s) == IF s # <<>> /\ IsSpace(Head(s)) THEN lstrip(Tail(s)) ELSE s

RECURSIVE rstrip(_)
rstrip(s) ==
  IF s # <<>> /\ IsSpace(s[Len(s)]) THEN rstrip(SubSeq(s, 1, Len(s) - 1)) ELSE s

strip(s) == rstrip(lstrip(s))

RECURSIVE split(_, _)
split(s, sep) ==
  IF \E k \in 1..Len(s) : s[k] = sep
  THEN LET k == CHOOSE j \in 1..Len(s) :
                  s[j] = sep /\ \A h \in 1..(j - 1) : s[h] # sep
       IN  <<SubSeq(s, 1, k - 1)>> \o split(Drop(s, k), sep)
  ELSE <<s>>

RECURSIVE MapStrip(_)
MapStrip(ps) ==
  IF ps = <<>> THEN <<>> ELSE <<strip(Head(ps))>> \o MapStrip(Tail(ps))

NonEmpty(p) == strip(p) # <<>>

----------------------------------------------------------------------------
(* Regular expressions.  A match is [t |-> "Match", g1 |-> chars]; search  *)
(* returns the leftmost match or None.                                     *)

Match(g) == [t |-> "Match", g1 |-> g]

RECURSIVE DigitRun(_, _)
DigitRun(s, j) ==
  IF j <= Len(s) /\ IsDigit(s[j]) THEN 1 + DigitRun(s, j + 1) ELSE 0

LitAtCI(s, i, lit) ==
  /\ i + Len(lit) - 1 <= Len(s)
  /\ \A k \in 1..Len(lit) : Lower(s[i + k - 1]) = lit[k]

\* rs_pat = (rs\d+|Affx-\d+), IGNORECASE: length of the match starting at i, 0 if none
rs_pat_at(s, i) ==
  IF LitAtCI(s, i, <<"r", "s">>) /\ DigitRun(s, i + 2) > 0
  THEN 2 + DigitRun(s, i + 2)
  ELSE IF LitAtCI(s, i, <<"a", "f", "f", "x", "-">>) /\ DigitRun(s, i + 5) > 0
       THEN 5 + DigitRun(s, i + 5)
       ELSE 0

rs_pat_search(s) ==
  IF \E i \in 1..Len(s) : rs_pat_at(s, i) > 0
  THEN LET i == CHOOSE j \in 1..Len(s) :
                  rs_pat_at(s, j) > 0 /\ \A h \in 1..(j - 1) : rs_pat_at(s, h) = 0
       IN  Match(SubSeq(s, i, i + rs_pat_at(s, i) - 1))
  ELSE None

\* The positions a sub-pattern can end at when it starts at j (backtracking
\* explores all of them).
OptSign(s, j) ==
  {j} \cup (IF j <= Len(s) /\ s[j] \in {"-", "+"} THEN {j + 1} ELSE {})

DigitsStar(s, j) == j..(j + DigitRun(s, j))

OptDot(s, j) == {j} \cup (IF j <= Len(s) /\ s[j] = "." THEN {j + 1} ELSE {})

DigitsPlus(s, j) == (j + 1)..(j + DigitRun(s, j))

\* (?:[eE][-+]?\d+)?
OptExponent(s, j) ==
  {j} \cup (IF j <= Len(s) /\ s[j] \in {"e", "E"}
            THEN UNION {DigitsPlus(s, k) : k \in OptSign(s, j + 1)}
            ELSE {})

\* A pattern that lets the digits after the point be missing:
\* [-+]?\d*\.?\d*(?:[eE][-+]?\d+)?
number_ends_loose(s, j) ==
  UNION {OptExponent(s, d) :
           d \in UNION {DigitsStar(s, c) :
                   c \in UNION {OptDot(s, b) :
                           b \in UNION {DigitsStar(s, a) : a \in OptSign(s, j)}}}}

\* [-+]?\d*\.?\d+(?:[eE][-+]?\d+)? starting at j: the set of end positions
number_ends(s, j) ==
  UNION {OptExponent(s, d) :
           d \in UNION {DigitsPlus(s, c) :
                   c \in UNION {OptDot(s, b) :
                           b \in UNION {DigitsStar(s, a) : a \in OptSign(s, j)}}}}

\* pip_pat = \(([-+]?\d*\.?\d+(?:[eE][-+]?\d+)?)\): the positions of the
\* closing parenthesis of a match that starts at i
pip_pat_at(s, i) ==
  IF s[i] = "("
  THEN {k \in number_ends(s, i + 1) : k <= Len(s) /\ s[k] = ")"}
  ELSE {}

pip_pat_search(s) ==
  IF \E i \in 1..Len(s) : pip_pat_at(s, i) # {}
  THEN LET i == CHOOSE j \in 1..Len(s) :
                  pip_pat_at(s, j) # {} /\ \A h \in 1..(j - 1) : pip_pat_at(s, h) = {}
           k == CHOOSE e \in pip_pat_at(s, i) : TRUE
       IN  Match(SubSeq(s, i + 1, k - 1))
  ELSE None

----------------------------------------------------------------------------
(* float(str) *)

RECURSIVE Pow10(_)
Pow10(n) == IF n <= 0 THEN 1 ELSE 10 * Pow10(n - 1)

RECURSIVE Canon(_, _)
Canon(m, e) ==
  IF m = 0 THEN Float(0, 0)
  ELSE IF m % 10 = 0 THEN Canon(m \div 10, e + 1) ELSE Float(m, e)

\* value of the n digits of s starting at j
RECURSIVE DigitsValue(_, _, _)
DigitsValue(s, j, n) ==
  IF n = 0 THEN 0
  ELSE 10 * DigitsValue(s, j, n - 1) + DigitVal(s[j + n - 1])

\* float(s) for a decimal literal: [sign] (digits [. [digits]] | . digits)
\* [(e|E) [sign] digits]; anything else raises ValueError
float(s) ==
  LET neg  == s # <<>> /\ s[1] = "-"
      j1   == IF s # <<>> /\ s[1] \in {"-", "+"} THEN 2 ELSE 1
      n1   == DigitRun(s, j1)
      j2   == j1 + n1
      dot  == j2 <= Len(s) /\ s[j2] = "."
      n2   == IF dot THEN DigitRun(s, j2 + 1) ELSE 0
      j3   == IF dot THEN j2 + 1 + n2 ELSE j2
      hasE == j3 <= Len(s) /\ s[j3] \in {"e", "E"}
      eneg == hasE /\ j3 + 1 <= Len(s) /\ s[j3 + 1] = "-"
      j4   == IF hasE /\ j3 + 1 <= Len(s) /\ s[j3 + 1] \in {"-", "+"}
              THEN j3 + 2 ELSE j3 + 1
      n3   == IF hasE THEN DigitRun(s, j4) ELSE 0
      end  == IF hasE THEN j4 + n3 ELSE j3
      mant == DigitsValue(s, j1, n1) * Pow10(n2) + DigitsValue(s, j2 + 1, n2)
      ex   == IF eneg THEN 0 - DigitsValue(s, j4, n3) ELSE DigitsValue(s, j4, n3)
  IN  IF n1 + n2 >= 1 /\ (hasE => n3 >= 1) /\ end = Len(s) + 1
      THEN Canon(IF neg THEN 0 - mant ELSE mant, ex - n2)
      ELSE Raised("ValueError")

NegInf == [t |-> "float", inf |-> -1]

\* unary minus on a float
float_neg(x) == Float(0 - x.m, x.e)

\* x < y on floats
float_lt(x, y) ==
  IF y = NegInf THEN FALSE
  ELSE IF x = NegInf THEN TRUE
  ELSE LET lo == IF x.e < y.e THEN x.e ELSE y.e
       IN  x.m * Pow10(x.e - lo) < y.m * Pow10(y.e - lo)

----------------------------------------------------------------------------
(* parse_top_pip_snps *)

List(items) == [t |-> "list", v |-> items]

\* parts = [p.strip() for p in cell.split(";") if p.strip()]
parts_of(chars) == MapStrip(SelectSeq(split(chars, ";"), NonEmpty))

\* items with the entries of the identifier rsid removed
without_rsid(items, rsid) ==
  LET Other(d) == d.rsid # rsid IN SelectSeq(items, Other)

\* A loop that keeps the items in a mapping keyed by identifier: a later chunk
\* replaces the entry of an earlier chunk that names the same identifier.
RECURSIVE for_parts_mapping(_, _)
for_parts_mapping(ps, items) ==
  IF ps = <<>> THEN List(items)
  ELSE LET p == Head(ps)
           rs_match == rs_pat_search(p)
           pip_match == pip_pat_search(p)
       IN  IF rs_match # None
           THEN LET rsid == Str(rs_match.g1)
                    pip_val == IF pip_match # None THEN float(pip_match.g1) ELSE None
                IN  IF IsRaised(pip_val) THEN pip_val
                    ELSE for_parts_mapping(Tail(ps),
                           Append(without_rsid(items, rsid), [rsid |-> rsid, pip |-> pip_val]))
           ELSE for_parts_mapping(Tail(ps), items)

\* A loop that keeps a chunk only when both patterns match.
RECURSIVE for_parts_both(_, _)
for_parts_both(ps, items) ==
  IF ps = <<>> THEN List(items)
  ELSE LET p == Head(ps)
           rs_match == rs_pat_search(p)
           pip_match == pip_pat_search(p)
       IN  IF rs_match # None /\ pip_match # None
           THEN LET pip_val == float(pip_match.g1)
                IN  IF IsRaised(pip_val) THEN pip_val
                    ELSE for_parts_both(Tail(ps),
                           Append(items, [rsid |-> Str(rs_match.g1), pip |-> pip_val]))
           ELSE for_parts_both(Tail(ps), items)

\* the loop over parts: the list of items, or the exception float() raised
RECURSIVE for_parts(_, _)
for_parts(ps, items) ==
  IF ps = <<>> THEN List(items)
  ELSE LET p == Head(ps)
           rs_match == rs_pat_search(p)
           pip_match == pip_pat_search(p)
       IN  IF rs_match # None
           THEN LET rsid == Str(rs_match.g1)
                    pip_val == IF pip_match # None THEN float(pip_match.g1) ELSE None
                IN  IF IsRaised(pip_val) THEN pip_val
                    ELSE for_parts(Tail(ps), Append(items, [rsid |-> rsid, pip |-> pip_val]))
           ELSE for_parts(Tail(ps), items)

\* key=lambda d: (-d["pip"] if isinstance(d["pip"], (float, int)) else float("-inf"))
sort_key(d) == IF isinstance_float_int(d.pip) THEN float_neg(d.pip) ELSE NegInf

\* An insertion that puts d before the elements of equal key.
RECURSIVE insert_sorted_unstable(_, _)
insert_sorted_unstable(sorted, d) ==
  IF sorted = <<>> THEN <<d>>
  ELSE IF ~float_lt(sort_key(Head(sorted)), sort_key(d))
       THEN <<d>> \o sorted
       ELSE <<Head(sorted)>> \o insert_sorted_unstable(Tail(sorted), d)

\* d goes before the first element whose key is greater than d's (stable)
RECURSIVE insert_sorted(_, _)
insert_sorted(sorted, d) ==
  IF sorted = <<>> THEN <<d>>
  ELSE IF float_lt(sort_key(d), sort_key(Head(sorted)))
       THEN <<d>> \o sorted
       ELSE <<Head(sorted)>> \o insert_sorted(Tail(sorted), d)

\* list.sort(key=...): ascending by key, equal keys keep their order
RECURSIVE list_sort(_, _)
list_sort(items, sorted) ==
  IF items = <<>> THEN sorted
  ELSE list_sort(Tail(items), insert_sorted(sorted, Head(items)))

parse_top_pip_snps(c) ==
  IF ~isinstance_str(c) \/ strip(c.v) = <<>>
  THEN List(<<>>)
  ELSE LET items == for_parts(parts_of(c.v), <<>>)
       IN  IF IsRaised(items) THEN items ELSE List(list_sort(items.v, <<>>))

----------------------------------------------------------------------------
(* Cells given to the parser *)

MaxChunks == 3

IdTexts == {<<"r", "s", "1">>, <<"r", "s", "2", "2">>}

ScoreTexts == {<<>>, <<" ", "(", "0", ".", "9", ")">>, <<"(", ".", "9", ")">>, <<" ", "(", "4", "e", "-", "1", ")">>}

\* chunks with an identifier and a score, and chunks that lack one, have a
\* malformed one, or are blank
Chunks ==
  {i \o s : i \in IdTexts, s \in ScoreTexts}
    \cup {<<"x">>,
          <<"x", " ", "(", "0", ".", "9", ")">>,
          <<"A", "f", "f", "x", "-", "3", " ", "(", "-", "1", ")">>,
          <<"R", "S", "1", " ", "(", ".", ")">>,
          <<"r", "s", "1", " ", "(", "0", ".", "9", "x", ")", " ">>,
          <<" ">>}

RECURSIVE Join(_)
Join(cs) ==
  IF cs = <<>> THEN <<>>
  ELSE IF Len(cs) = 1 THEN cs[1] ELSE cs[1] \o <<";">> \o Join(Tail(cs))

CellTexts == {Join(cs) : cs \in UNION {[1..n -> Chunks] : n \in 0..MaxChunks}}

\* a cell read by pandas is a str, or NaN when the field is empty
CellInputs == {Str(x) : x \in CellTexts} \cup {None, NaN}

----------------------------------------------------------------------------
(* The parser applied to one cell *)

InitParse ==
  /\ cell \in CellInputs
  /\ result = None
  /\ pc = "call"
  /\ df = <<>>
  /\ idx = 0
  /\ rows = <<>>
  /\ calls = <<>>
  /\ out = None

Parse ==
  /\ pc = "call"
  /\ result' = parse_top_pip_snps(cell)
  /\ pc' = "return"
  /\ UNCHANGED <<cell, df, idx, rows, calls, out>>

NextParse == Parse

SpecParse == InitParse /\ [][NextParse]_vars

----------------------------------------------------------------------------
(* Resolver and link builder *)

\* every object but None, an empty str and zero is truthy
truthy(x) == x # None /\ ~(x.t = "str" /\ x.v = <<>>)

RELEASE == <<"r", "1", "2">>

BASE_URL == <<"h", "t", "t", "p", "s", ":", "/", "/">> \o RELEASE \o <<".", "f", "i", "n", "n", "g", "e", "n", ".", "f", "i">>

rs9387540 == <<"r", "s", "9", "3", "8", "7", "5", "4", "0">>

rs2917928 == <<"r", "s", "2", "9", "1", "7", "9", "2", "8">>

lookup ==
  (rs9387540 :> <<"6", ":", "1", "1", "8", "0", "2", "6", "7", "1", "1", "-", "C", "-", "T">>)
    @@ (rs2917928 :> <<"1", "0", ":", "1", "1", "9", "5", "5", "6", "3", "7", "8", "-", "A", "-", "G">>)

get_variant_id_from_rsid(rsid) ==
  IF isinstance_str(rsid) /\ rsid.v \in DOMAIN lookup THEN Str(lookup[rsid.v]) ELSE None

\* A link builder that puts the identifier itself in the variant path when
\* the resolver has no coordinate.
finngen_link_for_rsid_unresolved(rsid) ==
  LET v_id == get_variant_id_from_rsid(rsid)
  IN  [value |-> IF truthy(v_id)
                 THEN Str(BASE_URL \o <<"/", "v", "a", "r", "i", "a", "n", "t", "/">> \o v_id.v)
                 ELSE Str(BASE_URL \o <<"/", "v", "a", "r", "i", "a", "n", "t", "/">> \o rsid.v),
       calls |-> <<rsid>>]

\* the link, and the arguments of the resolver calls made on the way
finngen_link_for_rsid(rsid) ==
  LET v_id == get_variant_id_from_rsid(rsid)
  IN  [value |-> IF truthy(v_id)
                 THEN Str(BASE_URL \o <<"/", "v", "a", "r", "i", "a", "n", "t", "/">> \o v_id.v)
                 ELSE None,
       calls |-> <<rsid>>]

----------------------------------------------------------------------------
(* The row-building loop *)

\* top = parsed[0] if parsed else {"rsid": None, "pip": None}
top_of(parsed) == IF parsed # <<>> THEN parsed[1] ELSE [rsid |-> None, pip |-> None]

\* A link step without the guard on top["rsid"].
link_of_unguarded(top) == finngen_link_for_rsid(top.rsid)

\* link = finngen_link_for_rsid(top["rsid"]) if top["rsid"] else None
link_of(top) ==
  IF truthy(top.rsid)
  THEN finngen_link_for_rsid(top.rsid)
  ELSE [value |-> None, calls |-> <<>>]

\* rows.append({...})
append_row(rows_, r, top, link) ==
  [t |-> "ok",
   rows |-> Append(rows_, [GWAS_File |-> r.GWAS_File,
                           Lead_SNP |-> r.Lead_SNP,
                           CS_Size |-> r.CS_Size,
                           Top_SNP |-> top.rsid,
                           Top_SNP_PIP |-> top.pip,
                           FinnGen |-> link.value]),
   calls |-> link.calls]

\* the iteration from the top entry on
with_top(rows_, r, top) == append_row(rows_, r, top, link_of(top))

\* An iteration that skips (continue) the rows whose cell has no entry.
with_parsed_skip(rows_, r, parsed) ==
  IF IsRaised(parsed) THEN parsed
  ELSE IF parsed.v = <<>> THEN [t |-> "ok", rows |-> rows_, calls |-> <<>>]
  ELSE with_top(rows_, r, top_of(parsed.v))

\* the iteration from the parsed cell on: an exception of the parser ends the
\* script
with_parsed(rows_, r, parsed) ==
  IF IsRaised(parsed) THEN parsed ELSE with_top(rows_, r, top_of(parsed.v))

\* one iteration on the input row r with the list rows_: the list afterwards
\* and the resolver calls made, or the exception raised
loop_body(rows_, r) == with_parsed(rows_, r, parse_top_pip_snps(r.Top_PIP_SNPs))

MaxRows == 2

\* the Top_PIP_SNPs cells of the input table
TableCells ==
  {NaN} \cup
  {Str(x) : x \in {<<" ">>,
                   <<"x", " ", "(", "0", ".", "9", ")">>,
                   rs9387540 \o <<" ", "(", "0", ".", "9", ")">>,
                   <<"r", "s", "1", " ", "(", "4", "e", "-", "1", ")", ";">> \o rs9387540 \o <<"(", ".", "9", ")">>,
                   <<"r", "s", "1", ";">> \o rs9387540 \o <<" ", "(", "0", ".", "9", ")">>,
                   <<"r", "s", "1", " ", "(", "0", ".", "9", ")">>,
                   rs2917928}}

\* the columns copied through
TableMeta ==
  {[GWAS_File |-> "a.tsv", Lead_SNP |-> "rs7", CS_Size |-> 1],
   [GWAS_File |-> "b.tsv", Lead_SNP |-> "rs8", CS_Size |-> 2]}

TableRows ==
  {[GWAS_File |-> m.GWAS_File, Lead_SNP |-> m.Lead_SNP, CS_Size |-> m.CS_Size,
    Top_PIP_SNPs |-> c] : m \in TableMeta, c \in TableCells}

Init ==
  /\ df \in UNION {[1..n -> TableRows] : n \in 0..MaxRows}
  /\ idx = 0
  /\ rows = <<>>
  /\ calls = <<>>
  /\ out = None
  /\ pc = "loop"
  /\ cell = None
  /\ result = None

\* the resolver calls of one iteration, tagged with the row they were made for
tag_calls(cs, k) == [j \in 1..Len(cs) |-> [row |-> k, rsid |-> cs[j]]]

\* for _, r in df.iterrows(): one iteration
BuildRow ==
  /\ pc = "loop"
  /\ idx < Len(df)
  /\ \E b \in {loop_body(rows, df[idx + 1])} :
       IF IsRaised(b)
       THEN /\ pc' = "raised"
            /\ UNCHANGED <<idx, rows, calls>>
       ELSE /\ rows' = b.rows
            /\ calls' = calls \o tag_calls(b.calls, idx + 1)
            /\ idx' = idx + 1
            /\ pc' = pc
  /\ UNCHANGED <<df, out, cell, result>>

\* out = pd.DataFrame(rows)
MakeFrame ==
  /\ pc = "loop"
  /\ idx = Len(df)
  /\ out' = List(rows)
  /\ pc' = "done"
  /\ UNCHANGED <<df, idx, rows, calls, cell, result>>

Next == BuildRow \/ MakeFrame

Spec == Init /\ [][Next]_vars

----------------------------------------------------------------------------
(* Properties *)

Returned == pc = "return" /\ isinstance_str(cell)

\* the chunks of the cell: the pieces between semicolons, trimmed, blanks dropped
ChunksOf(c) == IF isinstance_str(c) THEN parts_of(c.v) ELSE <<>>

HasIdToken(p) == \E i \in 1..Len(p) : rs_pat_at(p, i) > 0

HasParenNumber(p) == \E i \in 1..Len(p) : pip_pat_at(p, i) # {}

\* the identifier a chunk names and the score it carries
ChunkId(p) == Str(rs_pat_search(p).g1)

ChunkPip(p) == IF HasParenNumber(p) THEN float(pip_pat_search(p).g1) ELSE None

\* what each of the chunks ps gives: whether it has an identifier token, and
\* the entry it stands for if it has
ChunkFacts(ps) ==
  [k \in 1..Len(ps) |->
     IF HasIdToken(ps[k])
     THEN [has_id |-> TRUE, has_number |-> HasParenNumber(ps[k]),
           entry |-> [rsid |-> ChunkId(ps[k]), pip |-> ChunkPip(ps[k])]]
     ELSE [has_id |-> FALSE, has_number |-> HasParenNumber(ps[k]),
           entry |-> [rsid |-> None, pip |-> None]]]

IdChunks(fs) == {k \in 1..Len(fs) : fs[k].has_id}

Occurs(sub, s) == \E i \in 1..Len(s) : SubSeq(s, i, i + Len(sub) - 1) = sub

HasPrefix(s, pre) == Len(s) >= Len(pre) /\ SubSeq(s, 1, Len(pre)) = pre

IsScore(x) == x.t = "float" /\ x # NegInf /\ x # NaN

\* C1: for every output row whose cell has a chunk with an identifier and a
\* parenthesized score, Top_SNP and Top_SNP_PIP are the identifier and score
\* of the cell's highest-scored entry (never an entry without a score).
C1_TopIsHighestScore ==
  \A k \in 1..Len(rows) :
    LET fs == ChunkFacts(ChunksOf(df[k].Top_PIP_SNPs))
        scored == {j \in IdChunks(fs) : fs[j].has_number}
    IN  scored # {} =>
          /\ IsScore(rows[k].Top_SNP_PIP)
          /\ \A j \in scored : ~float_lt(rows[k].Top_SNP_PIP, fs[j].entry.pip)
          /\ \E j \in scored : /\ rows[k].Top_SNP = fs[j].entry.rsid
                               /\ rows[k].Top_SNP_PIP = fs[j].entry.pip

\* C2: the list parse_top_pip_snps returns is in descending order of score,
\* and every entry without a score comes after every entry with one.
C2_DescendingAbsentLast ==
  pc = "return" /\ result.t = "list" =>
    \A i \in 1..Len(result.v) : \A j \in (i + 1)..Len(result.v) :
      /\ result.v[i].pip = None => result.v[j].pip = None
      /\ (IsScore(result.v[i].pip) /\ IsScore(result.v[j].pip))
           => ~float_lt(result.v[i].pip, result.v[j].pip)

\* C3: a row whose top identifier the resolver does not resolve gets the
\* fallback search link BASE_URL/?query=<identifier>.
C3_FallbackSearchLink ==
  \A k \in 1..Len(rows) :
    (rows[k].Top_SNP # None /\ rows[k].Top_SNP.v \notin DOMAIN lookup)
      => rows[k].FinnGen = Str(BASE_URL \o <<"/", "?", "q", "u", "e", "r", "y", "=">> \o rows[k].Top_SNP.v)

\* C4: after k input rows have been processed the output holds exactly k
\* rows, row k of the output comes from row k of the input, the loop never
\* ends early, and the final table has as many rows as the input.
C4_OneRowPerInput ==
  /\ pc # "raised"
  /\ Len(rows) = idx
  /\ idx <= Len(df)
  /\ \A k \in 1..Len(rows) :
       /\ rows[k].GWAS_File = df[k].GWAS_File
       /\ rows[k].Lead_SNP = df[k].Lead_SNP
       /\ rows[k].CS_Size = df[k].CS_Size
  /\ pc = "done" => (out.t = "list" /\ out.v = rows /\ Len(out.v) = Len(df))

C4_Witness ==
  /\ pc = "done"
  /\ Len(out.v) = 2
  /\ df[1].Top_PIP_SNPs = NaN
  /\ df[2].Top_PIP_SNPs = Str(<<"r", "s", "1", " ", "(", "0", ".", "9", ")">>)
  /\ out.v[1].GWAS_File = "b.tsv"
  /\ out.v[2].GWAS_File = "a.tsv"

\* C5: parse_top_pip_snps returns a list for every cell, str or not, and
\* never raises; every score in it is a number that some chunk carries in
\* parentheses, so a parenthesized text that is no number gives no score.
C5_ParseTotal ==
  pc = "return" =>
    /\ result.t = "list"
    /\ LET ps == ChunksOf(cell)
       IN  \A i \in 1..Len(result.v) :
             \/ result.v[i].pip = None
             \/ /\ IsScore(result.v[i].pip)
                /\ \E k \in 1..Len(ps) :
                     \E a \in 1..Len(ps[k]) : \E b \in (a + 1)..Len(ps[k]) :
                       /\ ps[k][a] = "(" /\ ps[k][b] = ")"
                       /\ float(SubSeq(ps[k], a + 1, b - 1)) = result.v[i].pip
    /\ ~isinstance_str(cell) => result.v = <<>>

C5_Witness ==
  /\ pc = "return"
  /\ cell = Str(<<"r", "s", "1", " ", "(", "0", ".", "9", "x", ")", " ", ";", "R", "S", "1", " ", "(", ".", ")">>)
  /\ result = List(<<[rsid |-> Str(<<"r", "s", "1">>), pip |-> None],
                     [rsid |-> Str(<<"R", "S", "1">>), pip |-> None]>>)

\* C6 as stated: an identifier named by several chunks appears exactly once
\* in the result, with the score of the last chunk that names it.
C6_LaterOverwrites ==
  Returned /\ result.t = "list" =>
    LET fs == ChunkFacts(ChunksOf(cell))
        ids == IdChunks(fs)
    IN  \A k \in ids :
          LET same == {j \in ids : fs[j].entry.rsid = fs[k].entry.rsid}
              last == CHOOSE j \in same : \A h \in same : h <= j
          IN  Cardinality(same) > 1 =>
                /\ Cardinality({i \in 1..Len(result.v) :
                                  result.v[i].rsid = fs[k].entry.rsid}) = 1
                /\ \E i \in 1..Len(result.v) : result.v[i] = fs[last].entry

\* C6 (amended): an identifier named by several chunks has one entry in the
\* result for each of those chunks, each with the score of its own chunk.
C6_DuplicatesKept ==
  Returned /\ result.t = "list" =>
    LET fs == ChunkFacts(ChunksOf(cell))
        ids == IdChunks(fs)
    IN  /\ Len(result.v) = Cardinality(ids)
        /\ \A k \in ids :
             Cardinality({i \in 1..Len(result.v) : result.v[i] = fs[k].entry})
               = Cardinality({j \in ids : fs[j].entry = fs[k].entry})

C6_Witness ==
  /\ pc = "return"
  /\ cell = Str(<<"r", "s", "1", " ", "(", "0", ".", "9", ")", ";", "r", "s", "1", " ", "(", "4", "e", "-", "1", ")">>)
  /\ result = List(<<[rsid |-> Str(<<"r", "s", "1">>), pip |-> Float(9, -1)],
                     [rsid |-> Str(<<"r", "s", "1">>), pip |-> Float(4, -1)]>>)

\* the resolver calls made for input row k
CallsFor(k) == {c \in 1..Len(calls) : calls[c].row = k}

NoEntry(c) == ~isinstance_str(c) \/ ~HasIdToken(c.v)

\* C7: a row whose cell yields no entry (not a str, blank, or without any
\* identifier token) has Top_SNP, Top_SNP_PIP and FinnGen all None, and the
\* resolver is not called for it.
C7_EmptyCellRow ==
  \A k \in 1..Len(rows) :
    NoEntry(df[k].Top_PIP_SNPs) =>
      /\ rows[k].Top_SNP = None
      /\ rows[k].Top_SNP_PIP = None
      /\ rows[k].FinnGen = None
      /\ CallsFor(k) = {}

C7_Witness ==
  /\ Len(rows) = 2
  /\ df[1].Top_PIP_SNPs = Str(<<"x", " ", "(", "0", ".", "9", ")">>)
  /\ df[2].Top_PIP_SNPs = Str(rs2917928)
  /\ rows[1].Top_SNP = None /\ rows[1].FinnGen = None
  /\ Len(calls) = 1 /\ calls[1] = [row |-> 2, rsid |-> Str(rs2917928)]

VariantPath == BASE_URL \o <<"/", "v", "a", "r", "i", "a", "n", "t", "/">>

\* C8: a row whose top identifier the resolver maps to a coordinate string has
\* the link BASE_URL/variant/<coordinate string>, and only such rows have a
\* link of the /variant/ form.
C8_VariantLink ==
  \A k \in 1..Len(rows) :
    /\ (rows[k].Top_SNP # None /\ rows[k].Top_SNP.v \in DOMAIN lookup)
         => rows[k].FinnGen = Str(VariantPath \o lookup[rows[k].Top_SNP.v])
    /\ (rows[k].FinnGen # None /\ HasPrefix(rows[k].FinnGen.v, VariantPath))
         => (rows[k].Top_SNP # None /\ rows[k].Top_SNP.v \in DOMAIN lookup)

C8_Witness ==
  /\ Len(rows) >= 1
  /\ df[1].Top_PIP_SNPs = Str(<<"r", "s", "1", " ", "(", "4", "e", "-", "1", ")", ";">> \o rs9387540 \o <<"(", ".", "9", ")">>)
  /\ rows[1].Top_SNP = Str(rs9387540)
  /\ rows[1].Top_SNP_PIP = Float(9, -1)
  /\ rows[1].FinnGen = Str(<<"h", "t", "t", "p", "s", ":", "/", "/", "r", "1", "2", ".", "f", "i", "n", "n", "g", "e", "n", ".", "f", "i", "/", "v", "a", "r", "i", "a", "n", "t", "/", "6", ":", "1", "1", "8", "0", "2", "6", "7", "1", "1", "-", "C", "-", "T">>)

\* C9: a chunk without an identifier token gives no entry, a chunk with an
\* identifier token gives one entry whether or not it has a parenthesized
\* number (its score is None when it has none), and every identifier
\* returned occurs in the cell.
C9_ChunkToEntry ==
  Returned /\ result.t = "list" =>
    LET fs == ChunkFacts(ChunksOf(cell))
        ids == IdChunks(fs)
    IN  /\ Len(result.v) = Cardinality(ids)
        /\ \A k \in ids :
             ~fs[k].has_number =>
               \E i \in 1..Len(result.v) :
                 result.v[i] = [rsid |-> fs[k].entry.rsid, pip |-> None]
        /\ \A i \in 1..Len(result.v) :
             /\ isinstance_str(result.v[i].rsid)
             /\ HasIdToken(result.v[i].rsid.v)
             /\ Occurs(result.v[i].rsid.v, cell.v)

C9_Witness ==
  /\ pc = "return"
  /\ cell = Str(<<"x", " ", "(", "0", ".", "9", ")", ";", "r", "s", "2", "2", ";", "x">>)
  /\ result = List(<<[rsid |-> Str(<<"r", "s", "2", "2">>), pip |-> None]>>)

\* C10: entries of equal score, and the entries without a score, are in the
\* order of their chunks in the cell.
C10_StableOrder ==
  Returned /\ result.t = "list" =>
    LET fs == ChunkFacts(ChunksOf(cell))
        HasId(f) == f.has_id
        es == SelectSeq(fs, HasId)
    IN  \A i \in 1..Len(result.v) :
          LET Same(d) == d.pip = result.v[i].pip
              SameFact(f) == f.entry.pip = result.v[i].pip
              chunk_order == SelectSeq(es, SameFact)
              result_order == SelectSeq(result.v, Same)
          IN  /\ Len(result_order) = Len(chunk_order)
              /\ \A j \in 1..Len(result_order) : result_order[j] = chunk_order[j].entry

C10_Witness ==
  /\ pc = "return"
  /\ cell = Str(<<"r", "s", "2", "2", "(", ".", "9", ")", ";", "r", "s", "1", " ", "(", "0", ".", "9", ")", ";", "x">>)
  /\ result = List(<<[rsid |-> Str(<<"r", "s", "2", "2">>), pip |-> Float(9, -1)],
                     [rsid |-> Str(<<"r", "s", "1">>), pip |-> Float(9, -1)]>>)

====
